---- MODULE Spec2Model ----
(***************************************************************************)
(* Model of the lalg math kernel: Vec4 (src/src/vec4.rs) and Mat4          *)
(* (src/src/mat4.rs).                                                      *)
(*                                                                         *)
(* Numbers.  The code computes in f32.  Every value of this model is a     *)
(* small integer, and f32 represents every integer of magnitude below      *)
(* 2^24 exactly, with +, - and * exact as long as the result stays in      *)
(* that range; the largest magnitude the model reaches is far below it.    *)
(* Integer arithmetic is therefore what the code computes on these         *)
(* inputs.  Angles are whole quarter turns q, and cos / sin stand for the  *)
(* exact values of cos(q*pi/2) and sin(q*pi/2).                            *)
(*                                                                         *)
(* A Vec4 is a record [x, y, z, w]; a Mat4 is its `elements` array, a      *)
(* function on 0..15.                                                      *)
(*                                                                         *)
(* A behaviour is one use of the library: a receiver is constructed        *)
(* (pc = "idle" -> "mat" or "vec"), then one method or operator is called  *)
(* on it (-> "done", or "panicked" when the call panics).                  *)
(***************************************************************************)
EXTENDS Integers, FiniteSets, Sequences, TLC

VARIABLES pc, op, mat, vec, args, ret

vars == <<pc, op, mat, vec, args, ret>>

(* ------------------------------ bounds -------------------------------- *)

\* Lanes and matrix entries of the inputs range over -1..MaxVal.
MaxVal == 1

\* Indices tried on a Vec4 range over 0..MaxIndex (usize: never negative).
MaxIndex == 5

Vals == (0 - 1)..MaxVal

Idx == 0..15

\* Angles, in quarter turns.
Angles == 0..3

cos(q) == CASE q = 0 -> 1 [] q = 1 -> 0 [] q = 2 -> 0 - 1 [] OTHER -> 0

sin(q) == CASE q = 0 -> 0 [] q = 1 -> 1 [] q = 2 -> 0 [] OTHER -> 0 - 1

(* ------------------------------- Vec4 --------------------------------- *)

new(x, y, z, w) == [x |-> x, y |-> y, z |-> z, w |-> w]

zero == [x |-> 0, y |-> 0, z |-> 0, w |-> 0]

\* impl Add<Vec4> for Vec4
vec4_add(self, rhs) ==
    [x |-> self.x + rhs.x, y |-> self.y + rhs.y, z |-> self.z + rhs.z, w |-> self.w + rhs.w]

\* impl Mul<f32> for Vec4
vec4_mul_f32(self, rhs) ==
    [x |-> self.x * rhs, y |-> self.y * rhs, z |-> self.z * rhs, w |-> self.w * rhs]

dot(self, other) ==
    self.x * other.x + self.y * other.y + self.z * other.z + self.w * other.w

cross(self, other) ==
    [x |-> self.y * other.z - self.z * other.y,
     y |-> self.z * other.x - self.x * other.z,
     z |-> self.x * other.y - self.y * other.x,
     w |-> 0]

\* Mutant of vec4_mul: * as the component-wise product.
vec4_mul_componentwise(self, rhs) ==
    [x |-> self.x * rhs.x, y |-> self.y * rhs.y, z |-> self.z * rhs.z, w |-> self.w * rhs.w]

\* impl Mul<Vec4> for Vec4 ("cross product")
vec4_mul(self, rhs) ==
    [x |-> self.y * rhs.z - self.z * rhs.y,
     y |-> self.z * rhs.x - self.x * rhs.z,
     z |-> self.x * rhs.y - self.y * rhs.x,
     w |-> 0]

\* impl MulAssign<Vec4> for Vec4: *self = *self * rhs
vec4_mul_assign(self, rhs) == vec4_mul(self, rhs)

\* What index / index_mut evaluate to: a reference to one lane, or the panic.
Ref(lane) == [ok |-> TRUE, lane |-> lane]

Panic == [ok |-> FALSE, lane |-> "Index out of bounds"]

\* Mutant of index: an index past 3 reads w instead of panicking.
index_clamped(self, i) ==
    CASE i = 0 -> Ref("x")
      [] i = 1 -> Ref("y")
      [] i = 2 -> Ref("z")
      [] OTHER -> Ref("w")

index(self, i) ==
    CASE i = 0 -> Ref("x")
      [] i = 1 -> Ref("y")
      [] i = 2 -> Ref("z")
      [] i = 3 -> Ref("w")
      [] OTHER -> Panic

index_mut(self, i) ==
    CASE i = 0 -> Ref("x")
      [] i = 1 -> Ref("y")
      [] i = 2 -> Ref("z")
      [] i = 3 -> Ref("w")
      [] OTHER -> Panic

(* ------------------------------- Mat4 --------------------------------- *)

zeroes == [i \in Idx |-> 0]

identity ==
    [[[[zeroes EXCEPT ![0] = 1] EXCEPT ![5] = 1] EXCEPT ![9] = 1] EXCEPT ![13] = 1]

x_vector(self) == [x |-> self[0], y |-> self[1], z |-> self[2], w |-> self[3]]

y_vector(self) == [x |-> self[4], y |-> self[5], z |-> self[6], w |-> self[7]]

z_vector(self) == [x |-> self[8], y |-> self[9], z |-> self[10], w |-> self[11]]

position(self) == [x |-> self[12], y |-> self[13], z |-> self[14], w |-> self[15]]

\* Mutant of transpose: only the elements with i < j are taken from across
\* the diagonal.
transpose_half(self) ==
    [n \in Idx |-> LET i == n \div 4
                       j == n % 4
                   IN  IF i < j THEN self[j * 4 + i] ELSE self[n]]

\* for i, for j: elements[i*4 + j] = self.elements[j*4 + i]
transpose(self) ==
    [n \in Idx |-> LET i == n \div 4
                       j == n % 4
                   IN  self[j * 4 + i]]

\* Mutant of translate: the w lane is added as well.
translate_with_w(self, translation) ==
    [self EXCEPT ![12] = @ + translation.x,
                 ![13] = @ + translation.y,
                 ![14] = @ + translation.z,
                 ![15] = @ + translation.w]

translate(self, translation) ==
    [self EXCEPT ![12] = @ + translation.x,
                 ![13] = @ + translation.y,
                 ![14] = @ + translation.z]

\* Mutant of translate_local: the basis read along rows instead of columns.
translate_local_rows(self, translation) ==
    [self EXCEPT
       ![12] = @ + (self[0] * translation.x + self[1] * translation.y
                      + self[2] * translation.z),
       ![13] = @ + (self[4] * translation.x + self[5] * translation.y
                      + self[6] * translation.z),
       ![14] = @ + (self[8] * translation.x + self[9] * translation.y
                      + self[10] * translation.z)]

translate_local(self, translation) ==
    [self EXCEPT
       ![12] = @ + (self[0] * translation.x + self[4] * translation.y
                      + self[8] * translation.z),
       ![13] = @ + (self[1] * translation.x + self[5] * translation.y
                      + self[9] * translation.z),
       ![14] = @ + (self[2] * translation.x + self[6] * translation.y
                      + self[10] * translation.z)]

rodrigues(self, axis, angle) ==
    LET c == cos(angle)
        s == sin(angle)
        t == 1 - c
        x == axis.x
        y == axis.y
        z == axis.z
    IN  [i \in Idx |->
           CASE i = 0 -> t * x * x + c
             [] i = 1 -> t * x * y - s * z
             [] i = 2 -> t * x * z + s * y
             [] i = 3 -> 0
             [] i = 4 -> t * x * y + s * z
             [] i = 5 -> t * y * y + c
             [] i = 6 -> t * y * z - s * x
             [] i = 7 -> 0
             [] i = 8 -> t * x * z - s * y
             [] i = 9 -> t * y * z + s * x
             [] i = 10 -> t * z * z + c
             [] i = 11 -> 0
             [] i = 12 -> 0
             [] i = 13 -> 0
             [] i = 14 -> 0
             [] OTHER -> 1]

\* The inner loop of mul_assign: result[col*4+row], after the terms k..3 are
\* added to acc.
RECURSIVE accumulate(_, _, _, _, _, _)
accumulate(self, rhs, col, row, k, acc) ==
    IF k > 3 THEN acc
    ELSE accumulate(self, rhs, col, row, k + 1,
                    acc + self[k * 4 + row] * rhs[col * 4 + k])

\* impl MulAssign<Mat4> for Mat4: the value self.elements is left with
mat4_mul_assign(self, rhs) ==
    [n \in Idx |-> accumulate(self, rhs, n \div 4, n % 4, 0, 0)]

\* impl Mul<Mat4> for Mat4: out = self.clone(); out *= rhs; out
mat4_mul(self, rhs) == mat4_mul_assign(self, rhs)

\* impl Mul<Vec4> for Mat4
mat4_mul_vec4(self, rhs) ==
    [x |-> self[0] * rhs.x + self[4] * rhs.y + self[8] * rhs.z + self[12] * rhs.w,
     y |-> self[1] * rhs.x + self[5] * rhs.y + self[9] * rhs.z + self[13] * rhs.w,
     z |-> self[2] * rhs.x + self[6] * rhs.y + self[10] * rhs.z + self[14] * rhs.w,
     w |-> self[3] * rhs.x + self[7] * rhs.y + self[11] * rhs.z + self[15] * rhs.w]

\* Mutant of rotate: the operands of the product swapped.
rotate_swapped(self, axis, angle) == mat4_mul(rodrigues(self, axis, angle), self)

\* rotate: *self *= self.rodrigues(axis, angle)
rotate(self, axis, angle) == mat4_mul_assign(self, rodrigues(self, axis, angle))

\* rotate_local: *self = self.rodrigues(axis, angle) * *self
rotate_local(self, axis, angle) == mat4_mul(rodrigues(self, axis, angle), self)

(* ------------------------------ inputs -------------------------------- *)

VecInputs == [x : Vals, y : Vals, z : Vals, w : Vals]

\* One entry a at index p, 0 elsewhere.
Unit(p, a) == [i \in Idx |-> IF i = p THEN a ELSE 0]

\* A dense matrix: a = 0 gives the constant matrices, a # 0 sixteen distinct
\* entries.
Dense(a, d) == [i \in Idx |-> a * i * i + d]

\* The values a Mat4 is given.  `elements` is private, but every array of 16
\* numbers is the value of some Mat4: sums and scalar multiples of view(),
\* orthographic(), translate() and transpose() results span all of them.
MatInputs ==
    {Unit(p, a) : p \in Idx, a \in Vals \ {0}} \cup {Dense(a, d) : a \in Vals, d \in Vals}

\* Right-hand sides of Mat4 * Mat4.
MatArgs == MatInputs \cup {identity, zeroes}

NoArgs == [m |-> zeroes, v |-> zero, q |-> 0, i |-> 0, s |-> 0]

NoRet == [m |-> zeroes, v |-> zero, s |-> 0]

(* ------------------------------ actions ------------------------------- *)

Init ==
    /\ pc = "idle"
    /\ op = "none"
    /\ mat = zeroes
    /\ vec = zero
    /\ args = NoArgs
    /\ ret = NoRet

\* let m = Mat4::zeroes();
Zeroes ==
    /\ pc = "idle"
    /\ pc' = "mat"
    /\ op' = "zeroes"
    /\ mat' = zeroes
    /\ UNCHANGED <<vec, args, ret>>

\* let m = Mat4::identity();
Identity ==
    /\ pc = "idle"
    /\ pc' = "mat"
    /\ op' = "identity"
    /\ mat' = identity
    /\ UNCHANGED <<vec, args, ret>>

\* A Mat4 holding any of the input values.
MatValue ==
    /\ pc = "idle"
    /\ \E m \in MatInputs : mat' = m
    /\ pc' = "mat"
    /\ op' = "value"
    /\ UNCHANGED <<vec, args, ret>>

\* let v = Vec4::new(x, y, z, w);
Vec4New ==
    /\ pc = "idle"
    /\ \E x \in Vals, y \in Vals, z \in Vals, w \in Vals : vec' = new(x, y, z, w)
    /\ pc' = "vec"
    /\ op' = "new"
    /\ UNCHANGED <<mat, args, ret>>

Position ==
    /\ pc = "mat"
    /\ pc' = "done"
    /\ op' = "position"
    /\ ret' = [NoRet EXCEPT !.v = position(mat)]
    /\ args' = NoArgs
    /\ UNCHANGED <<mat, vec>>

Transpose ==
    /\ pc = "mat"
    /\ pc' = "done"
    /\ op' = "transpose"
    /\ ret' = [NoRet EXCEPT !.m = transpose(mat)]
    /\ args' = NoArgs
    /\ UNCHANGED <<mat, vec>>

Translate ==
    /\ pc = "mat"
    /\ \E v \in VecInputs :
         /\ args' = [NoArgs EXCEPT !.v = v]
         /\ ret' = [NoRet EXCEPT !.m = translate(mat, v)]
    /\ pc' = "done"
    /\ op' = "translate"
    /\ UNCHANGED <<mat, vec>>

TranslateLocal ==
    /\ pc = "mat"
    /\ \E v \in VecInputs :
         /\ args' = [NoArgs EXCEPT !.v = v]
         /\ ret' = [NoRet EXCEPT !.m = translate_local(mat, v)]
    /\ pc' = "done"
    /\ op' = "translate_local"
    /\ UNCHANGED <<mat, vec>>

Rodrigues ==
    /\ pc = "mat"
    /\ \E axis \in VecInputs, q \in Angles :
         /\ args' = [NoArgs EXCEPT !.v = axis, !.q = q]
         /\ ret' = [NoRet EXCEPT !.m = rodrigues(mat, axis, q)]
    /\ pc' = "done"
    /\ op' = "rodrigues"
    /\ UNCHANGED <<mat, vec>>

Rotate ==
    /\ pc = "mat"
    /\ \E axis \in VecInputs, q \in Angles :
         /\ args' = [NoArgs EXCEPT !.v = axis, !.q = q]
         /\ mat' = rotate(mat, axis, q)
    /\ pc' = "done"
    /\ op' = "rotate"
    /\ ret' = NoRet
    /\ UNCHANGED vec

RotateLocal ==
    /\ pc = "mat"
    /\ \E axis \in VecInputs, q \in Angles :
         /\ args' = [NoArgs EXCEPT !.v = axis, !.q = q]
         /\ mat' = rotate_local(mat, axis, q)
    /\ pc' = "done"
    /\ op' = "rotate_local"
    /\ ret' = NoRet
    /\ UNCHANGED vec

\* m *= rhs;
MatMulAssign ==
    /\ pc = "mat"
    /\ \E rhs \in MatArgs :
         /\ args' = [NoArgs EXCEPT !.m = rhs]
         /\ mat' = mat4_mul_assign(mat, rhs)
    /\ pc' = "done"
    /\ op' = "mul_assign"
    /\ ret' = NoRet
    /\ UNCHANGED vec

\* m * rhs
MatMul ==
    /\ pc = "mat"
    /\ \E rhs \in MatArgs :
         /\ args' = [NoArgs EXCEPT !.m = rhs]
         /\ ret' = [NoRet EXCEPT !.m = mat4_mul(mat, rhs)]
    /\ pc' = "done"
    /\ op' = "mul"
    /\ UNCHANGED <<mat, vec>>

\* m * v
MatMulVec ==
    /\ pc = "mat"
    /\ \E v \in VecInputs :
         /\ args' = [NoArgs EXCEPT !.v = v]
         /\ ret' = [NoRet EXCEPT !.v = mat4_mul_vec4(mat, v)]
    /\ pc' = "done"
    /\ op' = "mul_vec"
    /\ UNCHANGED <<mat, vec>>

Dot ==
    /\ pc = "vec"
    /\ \E b \in VecInputs :
         /\ args' = [NoArgs EXCEPT !.v = b]
         /\ ret' = [NoRet EXCEPT !.s = dot(vec, b)]
    /\ pc' = "done"
    /\ op' = "dot"
    /\ UNCHANGED <<mat, vec>>

Cross ==
    /\ pc = "vec"
    /\ \E b \in VecInputs :
         /\ args' = [NoArgs EXCEPT !.v = b]
         /\ ret' = [NoRet EXCEPT !.v = cross(vec, b)]
    /\ pc' = "done"
    /\ op' = "cross"
    /\ UNCHANGED <<mat, vec>>

\* a * b
VecMul ==
    /\ pc = "vec"
    /\ \E b \in VecInputs :
         /\ args' = [NoArgs EXCEPT !.v = b]
         /\ ret' = [NoRet EXCEPT !.v = vec4_mul(vec, b)]
    /\ pc' = "done"
    /\ op' = "vec_mul"
    /\ UNCHANGED <<mat, vec>>

\* a *= b;
VecMulAssign ==
    /\ pc = "vec"
    /\ \E b \in VecInputs :
         /\ args' = [NoArgs EXCEPT !.v = b]
         /\ vec' = vec4_mul_assign(vec, b)
    /\ pc' = "done"
    /\ op' = "vec_mul_assign"
    /\ ret' = NoRet
    /\ UNCHANGED mat

\* let s = v[i];
Index ==
    /\ pc = "vec"
    /\ \E i \in 0..MaxIndex :
         LET r == index(vec, i)
         IN  /\ args' = [NoArgs EXCEPT !.i = i]
             /\ IF r.ok
                THEN /\ ret' = [NoRet EXCEPT !.s = vec[r.lane]]
                     /\ pc' = "done"
                ELSE /\ ret' = ret
                     /\ pc' = "panicked"
    /\ op' = "index"
    /\ UNCHANGED <<mat, vec>>

\* v[i] = s;
IndexMut ==
    /\ pc = "vec"
    /\ \E i \in 0..MaxIndex, s \in Vals :
         LET r == index_mut(vec, i)
         IN  /\ args' = [NoArgs EXCEPT !.i = i, !.s = s]
             /\ IF r.ok
                THEN /\ vec' = [vec EXCEPT ![r.lane] = s]
                     /\ pc' = "done"
                ELSE /\ vec' = vec
                     /\ pc' = "panicked"
    /\ op' = "index_mut"
    /\ ret' = NoRet
    /\ UNCHANGED mat

Next ==
    \/ Zeroes
    \/ Identity
    \/ MatValue
    \/ Vec4New
    \/ Position
    \/ Transpose
    \/ Translate
    \/ TranslateLocal
    \/ Rodrigues
    \/ Rotate
    \/ RotateLocal
    \/ MatMulAssign
    \/ MatMul
    \/ MatMulVec
    \/ Dot
    \/ Cross
    \/ VecMul
    \/ VecMulAssign
    \/ Index
    \/ IndexMut

Spec == Init /\ [][Next]_vars

TypeOK ==
    /\ pc \in {"idle", "mat", "vec", "done", "panicked"}
    /\ DOMAIN mat = Idx
    /\ DOMAIN vec = {"x", "y", "z", "w"}

(* ------------------------------ claims -------------------------------- *)

\* A step that calls a Mat4 method / a Vec4 method on the receiver.
MatCall(name) == pc = "mat" /\ op' = name

VecCall(name) == pc = "vec" /\ op' = name

\* The column-major product as the specification writes it:
\* result[col*4+row] = sum over k of lhs[k*4+row] * rhs[col*4+k].
ColMajorProduct(lhs, rhs) ==
    [n \in Idx |->
       LET col == n \div 4
           row == n % 4
       IN  lhs[row] * rhs[col * 4] + lhs[4 + row] * rhs[col * 4 + 1]
             + lhs[8 + row] * rhs[col * 4 + 2] + lhs[12 + row] * rhs[col * 4 + 3]]

\* The matrix with 1 at flattened indices 0, 5, 10, 15 and 0 elsewhere.
DiagonalOnes == [i \in Idx |-> IF i \in {0, 5, 10, 15} THEN 1 ELSE 0]

\* C1: Mat4::identity() returns the matrix whose elements are 1 at flattened
\* indices 0, 5, 10 and 15 and 0 at every other index.
C1_IdentityDiagonal == op = "identity" => mat = DiagonalOnes

\* C2: for every matrix M, identity() * M = M and M * identity() = M,
\* element-wise, for the out-of-place * and the in-place *= alike.
C2_IdentityNeutral ==
    [][(MatCall("mul") \/ MatCall("mul_assign")) =>
         LET result == IF op' = "mul" THEN ret'.m ELSE mat'
         IN  /\ mat = identity => result = args'.m
             /\ args'.m = identity => result = mat]_vars

\* C3: rodrigues(axis, 0) equals Mat4::identity() element-wise, for any axis.
C3_ZeroAngleIsIdentity ==
    (op = "rodrigues" /\ args.q = 0) => ret.m = identity

\* C4: rotate(axis, angle) leaves self = old_self * R and rotate_local(axis,
\* angle) leaves self = R * old_self, with R = rodrigues(axis, angle) and * the
\* column-major product; the operand orders are never swapped.
C4_RotateOrder ==
    [][(MatCall("rotate") \/ MatCall("rotate_local")) =>
         LET R == rodrigues(mat, args'.v, args'.q)
         IN  /\ op' = "rotate" => mat' = ColMajorProduct(mat, R)
             /\ op' = "rotate_local" => mat' = ColMajorProduct(R, mat)]_vars

\* C4 witness: a rotate() call on a matrix that does not commute with R, left
\* with old_self * R.
C4_Witness ==
    /\ pc = "done"
    /\ op = "rotate"
    /\ \E m \in MatInputs :
         LET R == rodrigues(m, args.v, args.q)
         IN  /\ mat = ColMajorProduct(m, R)
             /\ mat # ColMajorProduct(R, m)

\* C5: M.translate(v).position() is M.position() + v in x, y, z; the w of the
\* position and elements 0..11 are those of M, v.w has no influence, and M is
\* not modified.
C5_TranslatePosition ==
    [][MatCall("translate") =>
         LET T == ret'.m
             v == args'.v
         IN  /\ position(T).x = position(mat).x + v.x
             /\ position(T).y = position(mat).y + v.y
             /\ position(T).z = position(mat).z + v.z
             /\ position(T).w = position(mat).w
             /\ \A i \in 0..11 : T[i] = mat[i]
             /\ \A w \in Vals : translate(mat, [v EXCEPT !.w = w]) = T
             /\ mat' = mat]_vars

\* C5 witness: a translate() by a vector with nonzero x and w that moved the
\* position.
C5_Witness ==
    /\ op = "translate"
    /\ args.v.x # 0
    /\ args.v.w # 0
    /\ ret.m[15] # 0
    /\ ret.m[12] = mat[12] + args.v.x
    /\ ret.m # mat

\* C6: M.translate_local(v) is a copy of M in which only elements 12, 13, 14
\* change, by the x, y, z of v.x * M.x_vector() + v.y * M.y_vector() +
\* v.z * M.z_vector(), which are the x, y, z of M * Vec4(v.x, v.y, v.z, 0); the
\* increments come from M's original elements and M is not modified.
C6_TranslateLocal ==
    [][MatCall("translate_local") =>
         LET T == ret'.m
             v == args'.v
             lin == vec4_add(vec4_add(vec4_mul_f32(x_vector(mat), v.x),
                                      vec4_mul_f32(y_vector(mat), v.y)),
                             vec4_mul_f32(z_vector(mat), v.z))
             prod == mat4_mul_vec4(mat, new(v.x, v.y, v.z, 0))
         IN  /\ \A i \in Idx \ {12, 13, 14} : T[i] = mat[i]
             /\ T[12] - mat[12] = lin.x
             /\ T[13] - mat[13] = lin.y
             /\ T[14] - mat[14] = lin.z
             /\ lin.x = prod.x /\ lin.y = prod.y /\ lin.z = prod.z
             /\ mat' = mat]_vars

\* C6 witness: a translate_local() on a matrix whose basis is not symmetric
\* and whose position is not zero, moving all of x, y, z.
C6_Witness ==
    /\ op = "translate_local"
    /\ mat[1] # mat[4]
    /\ mat[12] # 0
    /\ args.v.y # 0
    /\ ret.m[12] # mat[12]
    /\ ret.m[13] # mat[13]
    /\ ret.m[14] # mat[14]

\* C7: a.cross(b), a * b and a *= b produce the same vector c; c.w is 0 and
\* the four-lane dot products dot(c, a) and dot(c, b) are 0, whatever the w
\* of a and b.
C7_CrossAlias ==
    [][(VecCall("cross") \/ VecCall("vec_mul") \/ VecCall("vec_mul_assign")) =>
         LET a == vec
             b == args'.v
             c == IF op' = "vec_mul_assign" THEN vec' ELSE ret'.v
         IN  /\ c = cross(a, b)
             /\ c = vec4_mul(a, b)
             /\ c = vec4_mul_assign(a, b)
             /\ c.w = 0
             /\ dot(c, a) = 0
             /\ dot(c, b) = 0]_vars

\* C7 witness: a * b with a nonzero result from operands whose w is not 0.
C7_Witness ==
    /\ op = "vec_mul"
    /\ vec.w # 0
    /\ args.v.w # 0
    /\ ret.v.x # 0
    /\ ret.v.y # 0
    /\ ret.v.z # 0

\* C8: transpose() returns T with T[i*4+j] = M[j*4+i] for i, j in 0..3, leaves
\* M unchanged, and transposing T gives M back exactly.
C8_Transpose ==
    [][MatCall("transpose") =>
         LET T == ret'.m
         IN  /\ \A i \in 0..3, j \in 0..3 : T[i * 4 + j] = mat[j * 4 + i]
             /\ mat' = mat
             /\ transpose(T) = mat]_vars

\* C8 witness: a transpose() of a matrix that is not symmetric.
C8_Witness ==
    /\ op = "transpose"
    /\ ret.m # mat
    /\ ret.m[1] = mat[4]
    /\ mat[1] # mat[4]

\* Lane i of v, counted x, y, z, w from 0.
Lane(v, i) == <<v.x, v.y, v.z, v.w>>[i + 1]

\* C9: indexing a Vec4, to read or to write, with 0, 1, 2, 3 accesses x, y, z,
\* w; with an index >= 4 it panics: nothing is returned and no lane changes.
C9_Index ==
    [][(VecCall("index") \/ VecCall("index_mut")) =>
         LET i == args'.i
         IN  /\ i <= 3 =>
                  /\ pc' = "done"
                  /\ op' = "index" => (ret'.s = Lane(vec, i) /\ vec' = vec)
                  /\ op' = "index_mut" =>
                       \A k \in 0..3 :
                         Lane(vec', k) = IF k = i THEN args'.s ELSE Lane(vec, k)
             /\ i >= 4 =>
                  /\ pc' = "panicked"
                  /\ ret' = ret
                  /\ vec' = vec]_vars

\* C9 witness: a read with index 4 of a vector with w # 0 ended in the panic.
C9_Witness ==
    /\ pc = "panicked"
    /\ op = "index"
    /\ args.i = 4
    /\ vec.w # 0
    /\ ret = NoRet

\* Entry (row, col) of R = c*I + s*[k]x + (1-c)*k*k^T, row and col in 0..2.
RodriguesEntry(k, q, row, col) ==
    LET c == cos(q)
        s == sin(q)
        kv == <<k.x, k.y, k.z>>
        skew == <<<<0, 0 - k.z, k.y>>, <<k.z, 0, 0 - k.x>>, <<0 - k.y, k.x, 0>>>>
    IN  (IF row = col THEN c ELSE 0) + s * skew[row + 1][col + 1]
          + (1 - c) * kv[row + 1] * kv[col + 1]

\* C10: rodrigues(axis, angle) stores R in the column-major layout,
\* element[col*4+row] = R[row][col] for row, col in 0..2, k the unit axis; so
\* a quarter turn about (0,0,1) maps (1,0,0,0) to (0,1,0,0) under Mat4 * Vec4.
C10_RodriguesLayout ==
    (op = "rodrigues"
       /\ args.v.x * args.v.x + args.v.y * args.v.y + args.v.z * args.v.z = 1) =>
      /\ \A row \in 0..2, col \in 0..2 :
           ret.m[col * 4 + row] = RodriguesEntry(args.v, args.q, row, col)
      /\ (args.v.z = 1 /\ args.q = 1) =>
           mat4_mul_vec4(ret.m, new(1, 0, 0, 0)) = new(0, 1, 0, 0)

====
